---- MODULE Spec2Model ----
(***************************************************************************)
(* Model of the X65 esp-at peripheral extensions:                          *)
(*   main/at_led_cmd.c        WS2812 LED strip: pixel buffer, +LED command, *)
(*                            flush / RMT transmission, symbol encoder     *)
(*   main/at_buzz_cmd.c       buzzer: +BUZZ command on the LEDC timer       *)
(*   main/usb_serial_bridge.c USB serial <-> UART forwarding task           *)
(* The application thread runs the command handlers; the RMT driver pulls  *)
(* symbols from encoder_callback while a transaction is pending.           *)
(***************************************************************************)
EXTENDS Integers, Sequences, FiniteSets, TLC

(***************************************************************************)
(* Program constants                                                       *)
(***************************************************************************)
RMT_LED_STRIP_RESOLUTION_HZ == 10000000
MAX_LED_NUMBERS == 256
DEFAULT_LED_NUMBERS == 4
TRANS_QUEUE_DEPTH == 4
\* uint8_t holds values modulo 2^8
UINT8_RANGE == 256
\* the encoder demands this many free symbol slots before it writes anything
MIN_SYMBOLS_FREE == 8
\* buzzer: duty for 50% at 13 bit, frequency configured by at_buzz_init,
\* accepted frequency range of +BUZZ
LEDC_DUTY == 4096
LEDC_FREQUENCY == 4000
BUZZ_FREQ_MIN == 20
BUZZ_FREQ_MAX == 20000
\* bridge: Data Link Escape and the pause in microseconds that arms the break
DLE == 16
BREAK_PAUSE_US == 100000

(***************************************************************************)
(* Bounds of the model                                                     *)
(***************************************************************************)
\* number of application operations (commands, set, clear) after at_led_init
MaxOps == 2
\* longest explicitly enumerated +LED parameter list (long lists are added
\* separately, see LongParaLists)
MaxParas == 2
\* largest number of free symbol slots the hardware offers beyond the minimum
MaxFreeExtra == 1
\* largest number of LEDs in a frame driven through the encoder harness
MaxEncLeds == 2
\* number of +BUZZ commands
MaxBuzzOps == 3
\* number of iterations of the bridge loop
MaxIter == 3

(***************************************************************************)
(* uint8_t led_strip_pixels[MAX_LED_NUMBERS * 3] is held as px[led][k],    *)
(* the byte at index led * 3 + k of the array, k in 0..2.                  *)
(***************************************************************************)
PIXEL_BYTES == MAX_LED_NUMBERS * 3
LedIndex == 0 .. (MAX_LED_NUMBERS - 1)
ZeroPixels == [led \in LedIndex |-> [k \in 0..2 |-> 0]]

\* the byte led_strip_pixels[pos]
PixelByte(px, pos) == px[pos \div 3][pos % 3]

uint8(x) == x % UINT8_RANGE

Max(a, b) == IF a >= b THEN a ELSE b

(***************************************************************************)
(* Timing symbols (rmt_symbol_word_t constants)                            *)
(***************************************************************************)
TicksPerUs == RMT_LED_STRIP_RESOLUTION_HZ \div 1000000

\* 0.3 * RES / 1000000 and 0.9 * RES / 1000000, truncated on conversion to
\* the integer bit-field (3.0 and 9.0 at 10 MHz)
ws2812_zero ==
    [level0 |-> 1, duration0 |-> (3 * RMT_LED_STRIP_RESOLUTION_HZ) \div 10000000,
     level1 |-> 0, duration1 |-> (9 * RMT_LED_STRIP_RESOLUTION_HZ) \div 10000000]

ws2812_one ==
    [level0 |-> 1, duration0 |-> (9 * RMT_LED_STRIP_RESOLUTION_HZ) \div 10000000,
     level1 |-> 0, duration1 |-> (3 * RMT_LED_STRIP_RESOLUTION_HZ) \div 10000000]

\* faulty variant: the 50 us of the reset not scaled to ticks
ws2812_reset_unscaled ==
    [level0 |-> 0, duration0 |-> 50 \div 2,
     level1 |-> 0, duration1 |-> 50 \div 2]

ws2812_reset ==
    [level0 |-> 0, duration0 |-> (TicksPerUs * 50) \div 2,
     level1 |-> 0, duration1 |-> (TicksPerUs * 50) \div 2]

(***************************************************************************)
(* encoder_callback: one invocation.  data is the pixel buffer the         *)
(* transaction was given, done_in the value *done holds on entry.  Returns *)
(* the symbols written, their count and the value of *done on return.      *)
(***************************************************************************)
RECURSIVE Pow2(_)
Pow2(n) == IF n = 0 THEN 1 ELSE 2 * Pow2(n - 1)

\* data_bytes[data_pos] & bitmask, bitmask = 0x80 >> j
BitSet(byte, j) == (byte \div Pow2(7 - j)) % 2 = 1

\* faulty variant: the bits of a byte least-significant first
encoder_callback_lsb_first(data, data_size, symbols_written, symbols_free, done_in) ==
    IF symbols_free < MIN_SYMBOLS_FREE
    THEN [ret |-> 0, symbols |-> << >>, done |-> done_in]
    ELSE LET data_pos == symbols_written \div 8
         IN  IF data_pos < data_size
             THEN [ret |-> 8,
                   symbols |-> [j \in 1..8 |->
                                  IF BitSet(PixelByte(data, data_pos), 8 - j)
                                  THEN ws2812_one ELSE ws2812_zero],
                   done |-> done_in]
             ELSE [ret |-> 1, symbols |-> << ws2812_reset >>, done |-> TRUE]

\* faulty variant: ONE emitted for a clear bit and ZERO for a set bit
encoder_callback_inverted(data, data_size, symbols_written, symbols_free, done_in) ==
    IF symbols_free < MIN_SYMBOLS_FREE
    THEN [ret |-> 0, symbols |-> << >>, done |-> done_in]
    ELSE LET data_pos == symbols_written \div 8
         IN  IF data_pos < data_size
             THEN [ret |-> 8,
                   symbols |-> [j \in 1..8 |->
                                  IF BitSet(PixelByte(data, data_pos), j - 1)
                                  THEN ws2812_zero ELSE ws2812_one],
                   done |-> done_in]
             ELSE [ret |-> 1, symbols |-> << ws2812_reset >>, done |-> TRUE]

\* faulty variant: a byte is encoded at data_pos = data_size as well
encoder_callback_off_by_one(data, data_size, symbols_written, symbols_free, done_in) ==
    IF symbols_free < MIN_SYMBOLS_FREE
    THEN [ret |-> 0, symbols |-> << >>, done |-> done_in]
    ELSE LET data_pos == symbols_written \div 8
         IN  IF data_pos <= data_size
             THEN [ret |-> 8,
                   symbols |-> [j \in 1..8 |->
                                  IF BitSet(PixelByte(data, data_pos), j - 1)
                                  THEN ws2812_one ELSE ws2812_zero],
                   done |-> done_in]
             ELSE [ret |-> 1, symbols |-> << ws2812_reset >>, done |-> TRUE]

\* faulty variant: the end of the transaction is not signalled
encoder_callback_no_done(data, data_size, symbols_written, symbols_free, done_in) ==
    IF symbols_free < MIN_SYMBOLS_FREE
    THEN [ret |-> 0, symbols |-> << >>, done |-> done_in]
    ELSE LET data_pos == symbols_written \div 8
         IN  IF data_pos < data_size
             THEN [ret |-> 8,
                   symbols |-> [j \in 1..8 |->
                                  IF BitSet(PixelByte(data, data_pos), j - 1)
                                  THEN ws2812_one ELSE ws2812_zero],
                   done |-> done_in]
             ELSE [ret |-> 1, symbols |-> << ws2812_reset >>, done |-> done_in]

\* faulty variant: past the end of the data one free slot is enough
encoder_callback_reset_needs_one(data, data_size, symbols_written, symbols_free, done_in) ==
    IF symbols_free < MIN_SYMBOLS_FREE
    THEN IF symbols_written \div 8 >= data_size /\ symbols_free >= 1
         THEN [ret |-> 1, symbols |-> << ws2812_reset >>, done |-> TRUE]
         ELSE [ret |-> 0, symbols |-> << >>, done |-> done_in]
    ELSE LET data_pos == symbols_written \div 8
         IN  IF data_pos < data_size
             THEN [ret |-> 8,
                   symbols |-> [j \in 1..8 |->
                                  IF BitSet(PixelByte(data, data_pos), j - 1)
                                  THEN ws2812_one ELSE ws2812_zero],
                   done |-> done_in]
             ELSE [ret |-> 1, symbols |-> << ws2812_reset >>, done |-> TRUE]

encoder_callback(data, data_size, symbols_written, symbols_free, done_in) ==
    IF symbols_free < MIN_SYMBOLS_FREE
    THEN [ret |-> 0, symbols |-> << >>, done |-> done_in]
    ELSE LET data_pos == symbols_written \div 8
         IN  IF data_pos < data_size
             THEN [ret |-> 8,
                   symbols |-> [j \in 1..8 |->
                                  IF BitSet(PixelByte(data, data_pos), j - 1)
                                  THEN ws2812_one ELSE ws2812_zero],
                   done |-> done_in]
             ELSE [ret |-> 1, symbols |-> << ws2812_reset >>, done |-> TRUE]

(***************************************************************************)
(* at_led_set_value.  The parameter led_no is a uint8_t: the argument a    *)
(* caller passes is converted modulo 2^8 before the body runs.             *)
(***************************************************************************)
\* faulty variant: the channels stored in red, green, blue order
at_led_set_value_rgb_order(px, used, led_arg, red, green, blue) ==
    LET led_no == uint8(led_arg)
    IN  IF led_no >= MAX_LED_NUMBERS
        THEN [pixels |-> px, used |-> used]
        ELSE [pixels |-> [px EXCEPT ![led_no][0] = red,
                                    ![led_no][1] = green,
                                    ![led_no][2] = blue],
              used   |-> IF led_no >= used THEN led_no + 1 ELSE used]

\* faulty variant: led_used_no set to led_no + 1 on every call
at_led_set_value_always_advance(px, used, led_arg, red, green, blue) ==
    LET led_no == uint8(led_arg)
    IN  IF led_no >= MAX_LED_NUMBERS
        THEN [pixels |-> px, used |-> used]
        ELSE [pixels |-> [px EXCEPT ![led_no][0] = green,
                                    ![led_no][1] = red,
                                    ![led_no][2] = blue],
              used   |-> led_no + 1]

at_led_set_value(px, used, led_arg, red, green, blue) ==
    LET led_no == uint8(led_arg)
    IN  IF led_no >= MAX_LED_NUMBERS
        THEN [pixels |-> px, used |-> used]
        ELSE [pixels |-> [px EXCEPT ![led_no][0] = green,
                                    ![led_no][1] = red,
                                    ![led_no][2] = blue],
              used   |-> IF led_no >= used THEN led_no + 1 ELSE used]

(***************************************************************************)
(* at_led_flush_no, first half: the count parameter is a uint8_t and is    *)
(* clamped to led_used_no.  The second half (wait, transmit) is the action *)
(* FlushTransmit.                                                          *)
(***************************************************************************)
\* faulty variant: the count is not clamped to led_used_no
flush_count_no_clamp(count_arg, used) == uint8(count_arg)

flush_count(count_arg, used) ==
    LET count == uint8(count_arg)
    IN  IF count > used THEN used ELSE count

\* faulty variant: the flush does not wait for the pending transaction
rmt_tx_wait_all_done_skipped(queue) == TRUE

\* rmt_tx_wait_all_done(led_chan, portMAX_DELAY) returns once no transaction
\* is pending on the channel
rmt_tx_wait_all_done(queue) == Len(queue) = 0

\* rmt_transmit queues a transaction over `size` bytes of led_strip_pixels
rmt_transmit(queue, size) == Append(queue, [size |-> size, written |-> 0])

(***************************************************************************)
(* Colour quantizer                                                        *)
(***************************************************************************)
LUT3 == << 0, 2, 7, 25, 57, 106, 171, 255 >>
LUT2 == << 0, 2, 57, 255 >>

quant_r(digit) == LUT3[((digit \div 32) % 8) + 1]
\* faulty variant: the green index taken from bits 3..5
quant_g_shift3(digit) == LUT3[((digit \div 8) % 8) + 1]

quant_g(digit) == LUT3[((digit \div 4) % 8) + 1]
quant_b(digit) == LUT2[(digit % 4) + 1]

(***************************************************************************)
(* +LED parameters as the AT core hands them out: entry i of the list is   *)
(* what esp_at_get_para_as_digit(i, &digit) gives, a parsed int32 or a     *)
(* failure (parameter omitted or not a number); past the end it fails.     *)
(***************************************************************************)
Digit(d) == [res |-> "OK", digit |-> d]
NoDigit == [res |-> "FAIL", digit |-> 0]

esp_at_get_para_as_digit(ps, index) ==
    IF index < Len(ps) THEN ps[index + 1] ELSE NoDigit

(***************************************************************************)
(* at_setup_cmd_led: the parse loop, then the decision to flush.           *)
(***************************************************************************)
\* one evaluation of the while condition and, when it holds, of the loop body
led_parse_step(ps, s) ==
    IF s.ret # "RUN"
    THEN s
    ELSE IF s.index < MAX_LED_NUMBERS
            /\ esp_at_get_para_as_digit(ps, s.index).res = "OK"
    THEN LET digit == esp_at_get_para_as_digit(ps, s.index).digit
         IN  IF digit < 0 \/ digit > 255
             THEN [s EXCEPT !.ret = "ERROR"]
             ELSE LET v == at_led_set_value(s.pixels, s.used, s.index,
                                            quant_r(digit), quant_g(digit), quant_b(digit))
                  IN  [ret |-> "RUN", index |-> s.index + 1,
                       pixels |-> v.pixels, used |-> v.used]
    ELSE [s EXCEPT !.ret = "END"]

\* up to n consecutive steps of the loop, stopping once it has been left;
\* evaluated in halves so that the depth of evaluation stays logarithmic in n
RECURSIVE led_parse_steps(_, _, _)
led_parse_steps(ps, s, n) ==
    IF n = 1
    THEN led_parse_step(ps, s)
    ELSE LET h == led_parse_steps(ps, s, n \div 2)
         IN  IF h.ret = "RUN" THEN led_parse_steps(ps, h, n - (n \div 2)) ELSE h

\* the while loop: it ends within MAX_LED_NUMBERS + 1 evaluations of its
\* condition, by the return inside it ("ERROR") or by its condition ("END")
led_parse_loop(ps, px, used) ==
    led_parse_steps(ps, [ret |-> "RUN", index |-> 0, pixels |-> px, used |-> used],
                    MAX_LED_NUMBERS + 1)

\* faulty variant: no test for an empty parse
at_setup_cmd_led_no_empty_check(ps, px, used) ==
    LET l == led_parse_loop(ps, px, used)
    IN  IF l.ret = "ERROR"
        THEN [ret |-> "ERROR", flush |-> FALSE, index |-> l.index,
              pixels |-> l.pixels, used |-> l.used]
        ELSE [ret |-> "OK", flush |-> TRUE, index |-> l.index,
              pixels |-> l.pixels, used |-> l.used]

\* outcome of the handler up to the call of at_led_flush_no: flush says
\* whether at_led_flush_no(index) is called
at_setup_cmd_led(ps, px, used) ==
    LET l == led_parse_loop(ps, px, used)
    IN  IF l.ret = "ERROR"
        THEN [ret |-> "ERROR", flush |-> FALSE, index |-> l.index,
              pixels |-> l.pixels, used |-> l.used]
        ELSE IF l.index = 0
        THEN [ret |-> "ERROR", flush |-> FALSE, index |-> l.index,
              pixels |-> l.pixels, used |-> l.used]
        ELSE [ret |-> "OK", flush |-> TRUE, index |-> l.index,
              pixels |-> l.pixels, used |-> l.used]

(***************************************************************************)
(* at_led_clear_all up to its call of at_led_flush_no                      *)
(***************************************************************************)
RECURSIVE clear_loop(_, _, _)
clear_loop(led, px, used) ==
    IF led < DEFAULT_LED_NUMBERS
    THEN LET s == at_led_set_value(px, used, led, 0, 0, 0)
         IN  clear_loop(led + 1, s.pixels, s.used)
    ELSE [pixels |-> px, used |-> used]

at_led_clear_all == clear_loop(0, ZeroPixels, 0)

(***************************************************************************)
(* State                                                                   *)
(***************************************************************************)
VARIABLES
    led_strip_pixels,   \* uint8_t led_strip_pixels[MAX_LED_NUMBERS * 3], as [led][k]
    led_used_no,        \* unsigned int led_used_no
    tx_queue,           \* transactions pending on led_chan, head in flight
    pc,                 \* application thread: "boot", "idle" or "flush"
                        \* ("harness": no application thread, encoder harness)
    count,              \* at_led_flush_no: the clamped count while it waits
    flush_arg,          \* the argument of the last call of at_led_flush_no
    enc_ret,            \* return value of the last encoder_callback call
    \* history of the operation the application thread runs / ran last
    op,                 \* its name and arguments
    paras,              \* parameter list of the +LED command
    result,             \* result code of the +LED command
    op_tx,              \* payload sizes of the transmissions it issued
    waited,             \* a transaction was pending when it reached the wait
    pre_pixels,         \* led_strip_pixels when it started
    pre_used,           \* led_used_no when it started
    nops,               \* operations started since at_led_init
    \* encoder harness
    wire,               \* symbols emitted so far
    enc_leds,           \* colours of the frame being driven
    enc_call,           \* arguments and outcome of a single encoder_callback call
    \* buzzer
    ledc_freq,          \* frequency of LEDC_TIMER
    ledc_duty,          \* duty of LEDC_CHANNEL
    pre_freq,           \* ledc_freq when the +BUZZ command started
    pre_duty,           \* ledc_duty when the +BUZZ command started
    \* bridge task
    last_tx_ms,         \* int64_t last_tx_ms
    timer,              \* value esp_timer_get_time() returns, microseconds
    bridge_pc,          \* position in the loop: "usb" or "uart" read next
    usb_rx,             \* non-empty chunks read from USB, with the time read
    uart_tx,            \* writes to the UART, with their break flag
    usb_tx              \* writes to USB

led_vars == << led_strip_pixels, led_used_no, tx_queue, pc, count, flush_arg, enc_ret,
               op, paras, result, op_tx, waited, pre_pixels, pre_used, nops,
               wire, enc_leds >>
buzz_vars == << ledc_freq, ledc_duty, pre_freq, pre_duty >>
usb_vars == << last_tx_ms, timer, bridge_pc, usb_rx, uart_tx, usb_tx >>

vars == << led_strip_pixels, led_used_no, tx_queue, pc, count, flush_arg, enc_ret,
           op, paras, result, op_tx, waited, pre_pixels, pre_used, nops, wire, enc_leds,
           enc_call, ledc_freq, ledc_duty, pre_freq, pre_duty,
           last_tx_ms, timer, bridge_pc, usb_rx, uart_tx, usb_tx >>

Op(name, index, red, green, blue) ==
    [name |-> name, index |-> index, red |-> red, green |-> green, blue |-> blue]

(***************************************************************************)
(* Inputs                                                                  *)
(***************************************************************************)
\* valid colour codes: position i of a list over base b holds (b + 219 i) mod 256,
\* so that the list over 0x24 starts 0x24, 0xFF and neighbouring LEDs differ
ParaCode(b, i) == (b + 219 * i) % 256
ValidList(b, n) == [i \in 1..n |-> Digit(ParaCode(b, i - 1))] \o << >>

ValidLists == { ValidList(36, n) : n \in 0..MaxParas }

\* what follows the valid parameters: nothing, an out-of-range value, or a
\* parameter that does not parse (alone or followed by more parameters)
ParaTails ==
    { << >>, << Digit(256) >>, << Digit(-1) >>, << NoDigit >>,
      << NoDigit, Digit(999) >> }

ShortParaLists == { v \o t : v \in ValidLists, t \in ParaTails }

\* long lists: MAX_LED_NUMBERS parameters, all valid or the last one out of
\* range, and MAX_LED_NUMBERS valid parameters followed by one parameter
\* more, which is out of range
LongParaLists ==
    { ValidList(0, MAX_LED_NUMBERS),
      ValidList(0, MAX_LED_NUMBERS - 1) \o << Digit(256) >>,
      ValidList(0, MAX_LED_NUMBERS) \o << Digit(999) >> }

ParaLists == ShortParaLists \cup LongParaLists

SetIndexes == { 1, MAX_LED_NUMBERS - 1, MAX_LED_NUMBERS }
SetColours == { << 1, 2, 3 >> }

FreeCounts == (MIN_SYMBOLS_FREE - 1) .. (MIN_SYMBOLS_FREE + MaxFreeExtra)

\* frames of the encoder harness: (red, green, blue) per LED
EncColours == { << 1, 2, 3 >>, << 255, 0, 176 >>, << 0, 128, 85 >> }
EncFrames == UNION { [1..n -> EncColours] : n \in 0..MaxEncLeds }

(***************************************************************************)
(* Initial state: static initialisers, at_led_init not yet run             *)
(***************************************************************************)
NoCall == [data_size |-> 0, symbols_written |-> 0, symbols_free |-> 0,
           done_in |-> FALSE, ret |-> 0, symbols |-> << >>, done |-> FALSE,
           called |-> FALSE]

\* the buzzer after at_buzz_init, the bridge task before its loop
PeriphInit ==
    /\ enc_call = NoCall
    /\ ledc_freq = LEDC_FREQUENCY
    /\ ledc_duty = 0
    /\ pre_freq = LEDC_FREQUENCY
    /\ pre_duty = 0
    /\ last_tx_ms = 0
    /\ timer = 0
    /\ bridge_pc = "usb"
    /\ usb_rx = << >>
    /\ uart_tx = << >>
    /\ usb_tx = << >>

Init ==
    /\ PeriphInit
    /\ led_strip_pixels = ZeroPixels
    /\ led_used_no = 0
    /\ tx_queue = << >>
    /\ pc = "boot"
    /\ count = 0
    /\ flush_arg = 0
    /\ enc_ret = 0
    /\ op = Op("none", 0, 0, 0, 0)
    /\ paras = << >>
    /\ result = "NONE"
    /\ op_tx = << >>
    /\ waited = FALSE
    /\ pre_pixels = ZeroPixels
    /\ pre_used = 0
    /\ nops = 0
    /\ wire = << >>
    /\ enc_leds = << >>

(***************************************************************************)
(* Application thread                                                      *)
(***************************************************************************)
\* at_led_init: channel and encoder are created, then at_led_clear_all()
AtLedInit ==
    /\ pc = "boot"
    /\ led_strip_pixels' = at_led_clear_all.pixels
    /\ led_used_no' = at_led_clear_all.used
    /\ flush_arg' = DEFAULT_LED_NUMBERS * 3
    /\ count' = flush_count(DEFAULT_LED_NUMBERS * 3, at_led_clear_all.used)
    /\ pc' = "flush"
    /\ op' = Op("init", 0, 0, 0, 0)
    /\ op_tx' = << >>
    /\ waited' = (tx_queue # << >>)
    /\ pre_pixels' = led_strip_pixels
    /\ pre_used' = led_used_no
    /\ UNCHANGED << tx_queue, enc_ret, paras, result, nops, wire, enc_leds >>
    /\ UNCHANGED << enc_call, buzz_vars, usb_vars >>

\* at_led_clear_all() up to the wait inside at_led_flush_no
ClearAll ==
    /\ pc = "idle"
    /\ nops < MaxOps
    /\ led_strip_pixels' = at_led_clear_all.pixels
    /\ led_used_no' = at_led_clear_all.used
    /\ flush_arg' = DEFAULT_LED_NUMBERS * 3
    /\ count' = flush_count(DEFAULT_LED_NUMBERS * 3, at_led_clear_all.used)
    /\ pc' = "flush"
    /\ op' = Op("clear", 0, 0, 0, 0)
    /\ op_tx' = << >>
    /\ waited' = (tx_queue # << >>)
    /\ pre_pixels' = led_strip_pixels
    /\ pre_used' = led_used_no
    /\ nops' = nops + 1
    /\ UNCHANGED << tx_queue, enc_ret, paras, result, wire, enc_leds >>
    /\ UNCHANGED << enc_call, buzz_vars, usb_vars >>

\* at_led_set_value(led_arg, red, green, blue) called on its own
SetValue(led_arg, red, green, blue) ==
    /\ pc = "idle"
    /\ nops < MaxOps
    /\ \E s \in { at_led_set_value(led_strip_pixels, led_used_no,
                                     led_arg, red, green, blue) } :
           /\ led_strip_pixels' = s.pixels
           /\ led_used_no' = s.used
    /\ op' = Op("set", led_arg, red, green, blue)
    /\ op_tx' = << >>
    /\ waited' = FALSE
    /\ pre_pixels' = led_strip_pixels
    /\ pre_used' = led_used_no
    /\ nops' = nops + 1
    /\ UNCHANGED << tx_queue, pc, count, flush_arg, enc_ret, paras, result, wire,
                    enc_leds >>
    /\ UNCHANGED << enc_call, buzz_vars, usb_vars >>

\* +LED=<ps>: at_setup_cmd_led up to its return or to the wait inside
\* at_led_flush_no
LedCmd(ps) ==
    /\ pc = "idle"
    /\ nops < MaxOps
    /\ \E c \in { at_setup_cmd_led(ps, led_strip_pixels, led_used_no) } :
           /\ led_strip_pixels' = c.pixels
           /\ led_used_no' = c.used
           /\ IF c.flush
              THEN /\ pc' = "flush"
                   /\ flush_arg' = c.index
                   /\ count' = flush_count(c.index, c.used)
                   /\ result' = "PENDING"
                   /\ waited' = (tx_queue # << >>)
              ELSE /\ pc' = "idle"
                   /\ UNCHANGED << count, flush_arg >>
                   /\ result' = c.ret
                   /\ waited' = FALSE
    /\ op' = Op("led", 0, 0, 0, 0)
    /\ paras' = ps
    /\ op_tx' = << >>
    /\ pre_pixels' = led_strip_pixels
    /\ pre_used' = led_used_no
    /\ nops' = nops + 1
    /\ UNCHANGED << tx_queue, enc_ret, wire, enc_leds >>
    /\ UNCHANGED << enc_call, buzz_vars, usb_vars >>

\* at_led_flush_no, second half: rmt_tx_wait_all_done returns, rmt_transmit
\* queues count * 3 bytes, the caller returns
FlushTransmit ==
    /\ pc = "flush"
    /\ rmt_tx_wait_all_done(tx_queue)
    /\ Len(tx_queue) < TRANS_QUEUE_DEPTH
    /\ tx_queue' = rmt_transmit(tx_queue, count * 3)
    /\ op_tx' = Append(op_tx, count * 3)
    /\ pc' = "idle"
    /\ result' = IF op.name = "led" THEN "OK" ELSE result
    /\ UNCHANGED << led_strip_pixels, led_used_no, count, flush_arg, enc_ret, op, paras,
                    waited, pre_pixels, pre_used, nops, wire, enc_leds >>
    /\ UNCHANGED << enc_call, buzz_vars, usb_vars >>

(***************************************************************************)
(* RMT driver: one invocation of encoder_callback for the transaction in   *)
(* flight, reading led_strip_pixels in place                               *)
(***************************************************************************)
EncResult(free) ==
    encoder_callback(led_strip_pixels, Head(tx_queue).size,
                     Head(tx_queue).written, free, FALSE)

EncoderInvoke(free) ==
    /\ tx_queue # << >>
    /\ tx_queue' = IF EncResult(free).done
                   THEN Tail(tx_queue)
                   ELSE << [Head(tx_queue) EXCEPT !.written = @ + EncResult(free).ret] >>
                        \o Tail(tx_queue)

HwEncode(free) ==
    /\ pc # "harness"
    /\ EncoderInvoke(free)
    /\ UNCHANGED << led_strip_pixels, led_used_no, pc, count, flush_arg, enc_ret, op, paras,
                    result, op_tx, waited, pre_pixels, pre_used, nops, wire,
                    enc_leds >>
    /\ UNCHANGED << enc_call, buzz_vars, usb_vars >>

Next ==
    \/ AtLedInit
    \/ ClearAll
    \/ \E i \in SetIndexes, c \in SetColours : SetValue(i, c[1], c[2], c[3])
    \/ \E ps \in ParaLists : LedCmd(ps)
    \/ FlushTransmit
    \/ \E free \in FreeCounts : HwEncode(free)

Spec == Init /\ [][Next]_vars

(***************************************************************************)
(* Scheduling: the RMT driver keeps invoking encoder_callback while a      *)
(* transaction is pending and in the end offers MIN_SYMBOLS_FREE slots or  *)
(* more; the application thread proceeds once rmt_tx_wait_all_done lets it.*)
(***************************************************************************)
HwEncodeRoom == \E free \in FreeCounts : free >= MIN_SYMBOLS_FREE /\ HwEncode(free)

SpecLive == Spec /\ WF_vars(HwEncodeRoom) /\ WF_vars(FlushTransmit)

(***************************************************************************)
(* Encoder harness: a frame is stored with at_led_set_value, flushed, and  *)
(* encoder_callback is driven from symbols_written = 0, symbols_written    *)
(* advancing by each returned count, until it signals done.                *)
(***************************************************************************)
RECURSIVE StoreFrame(_, _, _, _)
StoreFrame(leds, i, px, used) ==
    IF i > Len(leds)
    THEN [pixels |-> px, used |-> used]
    ELSE LET s == at_led_set_value(px, used, i - 1, leds[i][1], leds[i][2], leds[i][3])
         IN  StoreFrame(leds, i + 1, s.pixels, s.used)

EncInit ==
    /\ PeriphInit
    /\ enc_leds \in EncFrames
    /\ led_strip_pixels = StoreFrame(enc_leds, 1, ZeroPixels, 0).pixels
    /\ led_used_no = StoreFrame(enc_leds, 1, ZeroPixels, 0).used
    /\ flush_arg = Len(enc_leds)
    /\ count = flush_count(flush_arg, led_used_no)
    /\ tx_queue = rmt_transmit(<< >>, count * 3)
    /\ pc = "harness"
    /\ enc_ret = 0
    /\ wire = << >>
    /\ op = Op("none", 0, 0, 0, 0)
    /\ paras = << >>
    /\ result = "NONE"
    /\ op_tx = << >>
    /\ waited = FALSE
    /\ pre_pixels = ZeroPixels
    /\ pre_used = 0
    /\ nops = 0

EncDrive(free) ==
    /\ pc = "harness"
    /\ EncoderInvoke(free)
    /\ enc_ret' = EncResult(free).ret
    /\ wire' = wire \o EncResult(free).symbols
    /\ UNCHANGED << led_strip_pixels, led_used_no, pc, count, flush_arg, op, paras, result,
                    op_tx, waited, pre_pixels, pre_used, nops, enc_leds >>
    /\ UNCHANGED << enc_call, buzz_vars, usb_vars >>

EncNext == \E free \in FreeCounts : EncDrive(free)

SpecEnc == EncInit /\ [][EncNext]_vars

(***************************************************************************)
(* Buzzer: at_setup_cmd_buzz.  ledc_set_freq sets the frequency of         *)
(* LEDC_TIMER, ledc_set_duty with ledc_update_duty the duty of             *)
(* LEDC_CHANNEL.                                                           *)
(***************************************************************************)
\* faulty variant: the range test made before the test for 0
at_setup_cmd_buzz_range_first(ps, freq, duty) ==
    LET p == esp_at_get_para_as_digit(ps, 0)
    IN  IF p.res # "OK"
        THEN [ret |-> "ERROR", freq |-> freq, duty |-> duty]
        ELSE IF p.digit < BUZZ_FREQ_MIN \/ p.digit > BUZZ_FREQ_MAX
        THEN [ret |-> "ERROR", freq |-> freq, duty |-> duty]
        ELSE IF p.digit = 0
        THEN [ret |-> "OK", freq |-> freq, duty |-> 0]
        ELSE [ret |-> "OK", freq |-> p.digit, duty |-> LEDC_DUTY]

at_setup_cmd_buzz(ps, freq, duty) ==
    LET p == esp_at_get_para_as_digit(ps, 0)
    IN  IF p.res # "OK"
        THEN [ret |-> "ERROR", freq |-> freq, duty |-> duty]
        ELSE IF p.digit = 0
        THEN [ret |-> "OK", freq |-> freq, duty |-> 0]
        ELSE IF p.digit < BUZZ_FREQ_MIN \/ p.digit > BUZZ_FREQ_MAX
        THEN [ret |-> "ERROR", freq |-> freq, duty |-> duty]
        ELSE [ret |-> "OK", freq |-> p.digit, duty |-> LEDC_DUTY]

\* first parameters of +BUZZ: 0, the ends of the range and their neighbours,
\* a tone inside the range, a negative value, a parameter that does not
\* parse; no parameter at all; a second parameter after a good or a bad one
BuzzDigits ==
    { 0, -1, 1, BUZZ_FREQ_MIN - 1, BUZZ_FREQ_MIN, 440, BUZZ_FREQ_MAX, BUZZ_FREQ_MAX + 1 }
BuzzParas ==
    { << Digit(d) >> : d \in BuzzDigits }
    \cup { << >>, << NoDigit >>, << NoDigit, Digit(440) >>, << Digit(0), Digit(440) >> }

\* +BUZZ=<ps>
BuzzCmd(ps) ==
    /\ nops < MaxBuzzOps
    /\ \E c \in { at_setup_cmd_buzz(ps, ledc_freq, ledc_duty) } :
           /\ ledc_freq' = c.freq
           /\ ledc_duty' = c.duty
           /\ result' = c.ret
    /\ pre_freq' = ledc_freq
    /\ pre_duty' = ledc_duty
    /\ op' = Op("buzz", 0, 0, 0, 0)
    /\ paras' = ps
    /\ nops' = nops + 1
    /\ UNCHANGED << led_strip_pixels, led_used_no, tx_queue, pc, count, flush_arg,
                    enc_ret, op_tx, waited, pre_pixels, pre_used, wire, enc_leds,
                    enc_call, usb_vars >>

BuzzNext == \E ps \in BuzzParas : BuzzCmd(ps)

SpecBuzz == Init /\ [][BuzzNext]_vars

(***************************************************************************)
(* Bridge task: the loop of usb_serial_task.  Each iteration reads from    *)
(* USB (UsbRead) and then from the UART (UartRead); a read that times out  *)
(* returns the empty chunk.                                                *)
(***************************************************************************)
\* faulty variant: a pause of exactly BREAK_PAUSE_US arms the break as well
send_break_at_pause(len, data, curr_tx_ms, last) ==
    len = 1 /\ curr_tx_ms - last >= BREAK_PAUSE_US /\ data[1] = DLE

\* len == 1 && curr_tx_ms - last_tx_ms > 100000 && data[0] == 0x10
send_break(len, data, curr_tx_ms, last) ==
    len = 1 /\ curr_tx_ms - last > BREAK_PAUSE_US /\ data[1] = DLE

\* chunks a USB read returns: nothing, a lone DLE, another lone byte, two DLEs
UsbChunks == { << >>, << DLE >>, << DLE + 1 >>, << DLE, DLE >> }
\* chunks a UART read returns
UartChunks == { << >>, << DLE >> }
\* time between two consecutive USB reads returning, in microseconds
TimeSteps == { 1, BREAK_PAUSE_US, BREAK_PAUSE_US + 1 }

\* usb_serial_jtag_read_bytes returns chunk at time timer + dt; a non-empty
\* chunk is written to the UART, with or without break
UsbRead(chunk, dt) ==
    /\ bridge_pc = "usb"
    /\ nops < MaxIter
    /\ timer' = timer + dt
    /\ IF Len(chunk) # 0
       THEN /\ uart_tx' = Append(uart_tx,
                                 [data |-> chunk,
                                  brk  |-> send_break(Len(chunk), chunk, timer', last_tx_ms)])
            /\ last_tx_ms' = timer'
            /\ usb_rx' = Append(usb_rx, [data |-> chunk, time |-> timer'])
       ELSE UNCHANGED << uart_tx, last_tx_ms, usb_rx >>
    /\ bridge_pc' = "uart"
    /\ nops' = nops + 1
    /\ UNCHANGED << led_strip_pixels, led_used_no, tx_queue, pc, count, flush_arg,
                    enc_ret, op, paras, result, op_tx, waited, pre_pixels, pre_used,
                    wire, enc_leds, enc_call, buzz_vars, usb_tx >>

\* uart_read_bytes returns chunk; a non-empty chunk is written to USB
UartRead(chunk) ==
    /\ bridge_pc = "uart"
    /\ usb_tx' = IF Len(chunk) # 0 THEN Append(usb_tx, chunk) ELSE usb_tx
    /\ bridge_pc' = "usb"
    /\ UNCHANGED << led_vars, enc_call, buzz_vars, last_tx_ms, timer, usb_rx, uart_tx >>

UsbNext ==
    \/ \E chunk \in UsbChunks, dt \in TimeSteps : UsbRead(chunk, dt)
    \/ \E chunk \in UartChunks : UartRead(chunk)

SpecUsb == Init /\ [][UsbNext]_vars

(***************************************************************************)
(* Single invocation of encoder_callback on a stored frame, with any       *)
(* symbols_written, symbols_free and value of *done on entry.              *)
(***************************************************************************)
CallFreeCounts == 0 .. (MIN_SYMBOLS_FREE + MaxFreeExtra)
CallWritten == 0 .. (8 * 3 * MaxEncLeds + MIN_SYMBOLS_FREE + 1)

EncCall(written, free, done_in) ==
    /\ pc = "harness"
    /\ ~enc_call.called
    /\ \E r \in { encoder_callback(led_strip_pixels, Head(tx_queue).size,
                                     written, free, done_in) } :
           enc_call' = [data_size |-> Head(tx_queue).size,
                        symbols_written |-> written, symbols_free |-> free,
                        done_in |-> done_in, ret |-> r.ret,
                        symbols |-> r.symbols, done |-> r.done, called |-> TRUE]
    /\ UNCHANGED << led_vars, buzz_vars, usb_vars >>

CallNext ==
    \E written \in CallWritten, free \in CallFreeCounts, done_in \in BOOLEAN :
        EncCall(written, free, done_in)

SpecCall == EncInit /\ [][CallNext]_vars


(***************************************************************************)
(* Properties                                                              *)
(***************************************************************************)
InRange(p) == p.res = "OK" /\ p.digit >= 0 /\ p.digit <= 255
OutOfRange(p) == p.res = "OK" /\ (p.digit < 0 \/ p.digit > 255)
AllInRange(ps) == \A i \in 1..Len(ps) : InRange(ps[i])

\* the +LED command has returned
LedReturned == pc = "idle" /\ op.name = "led"

\* the pixel entry of an LED as (green, red, blue), the wire order
Entry(px, led) == << px[led][0], px[led][1], px[led][2] >>
Quantized(digit) == << quant_g(digit), quant_r(digit), quant_b(digit) >>

\* C1: while a transmission is in flight (from the transmit request to the
\* encoder signalling done) no byte of the pixel buffer changes.
C1_BufferStableInFlight ==
    [][tx_queue # << >> => led_strip_pixels' = led_strip_pixels]_vars

\* C2: at most one transmission is in flight in every reachable state.
C2_OneInFlight == Len(tx_queue) <= 1

\* a flush that found a transaction pending has waited and then issued its own
C2_Witness ==
    /\ pc = "idle"
    /\ waited
    /\ op_tx # << >>
    /\ Len(tx_queue) = 1

\* C3: a +LED command with n parameters, 1 <= n <= MAX_LED_NUMBERS, all in
\* 0..255, returns OK and issues exactly one transmission of n * 3 bytes.
C3_FlushExactlyN ==
    (LedReturned /\ Len(paras) >= 1 /\ Len(paras) <= MAX_LED_NUMBERS
        /\ AllInRange(paras))
    => (result = "OK" /\ op_tx = << Len(paras) * 3 >>)

\* C4: a +LED command returns OK if and only if at least one parameter was
\* supplied and every supplied parameter is in 0..255; otherwise ERROR.
C4_SuccessIff ==
    LedReturned
    => /\ result \in { "OK", "ERROR" }
       /\ (result = "OK") <=> (Len(paras) >= 1 /\ AllInRange(paras))

\* position (0-based) of the first out-of-range parameter
HasOutOfRange(ps) == \E i \in 1..Len(ps) : OutOfRange(ps[i])
FirstOutOfRange(ps) ==
    CHOOSE k \in 0..(Len(ps) - 1) :
        /\ OutOfRange(ps[k + 1])
        /\ \A i \in 0..(k - 1) : ~OutOfRange(ps[i + 1])

\* C5: when the first out-of-range parameter is at position k, the command
\* returns ERROR, entries 0..k-1 hold the quantized colours of parameters
\* 0..k-1, led_used_no is max(previous, k), entries from k on are unchanged
\* and no transmission is issued.
C5_PartialApplication ==
    (LedReturned /\ HasOutOfRange(paras))
    => LET k == FirstOutOfRange(paras)
       IN  /\ result = "ERROR"
           /\ \A i \in 0..(k - 1) :
                 InRange(paras[i + 1])
                 => Entry(led_strip_pixels, i) = Quantized(paras[i + 1].digit)
           /\ led_used_no = Max(pre_used, k)
           /\ \A led \in LedIndex : led >= k => led_strip_pixels[led] = pre_pixels[led]
           /\ op_tx = << >>

\* C6: a +LED command with zero parameters returns ERROR, leaves the pixel
\* buffer and led_used_no unchanged and issues no transmission.
C6_ZeroParameters ==
    (LedReturned /\ paras = << >>)
    => /\ result = "ERROR"
       /\ led_strip_pixels = pre_pixels
       /\ led_used_no = pre_used
       /\ op_tx = << >>

\* the empty command has run on a buffer that holds colours
C6_Witness ==
    /\ LedReturned
    /\ paras = << >>
    /\ result = "ERROR"
    /\ pre_pixels # ZeroPixels

\* C7: at_led_set_value with an index >= MAX_LED_NUMBERS changes neither the
\* pixel buffer nor led_used_no.
C7_SetOutOfRangeNoop ==
    (op.name = "set" /\ op.index >= MAX_LED_NUMBERS)
    => (led_strip_pixels = pre_pixels /\ led_used_no = pre_used)

\* C8: at_led_set_value(i, r, g, b) with i < MAX_LED_NUMBERS stores g, r, b at
\* bytes 3i, 3i + 1, 3i + 2 and leaves every other byte unchanged.
C8_SetStoresWireOrder ==
    (op.name = "set" /\ op.index < MAX_LED_NUMBERS)
    => /\ PixelByte(led_strip_pixels, 3 * op.index) = op.green
       /\ PixelByte(led_strip_pixels, 3 * op.index + 1) = op.red
       /\ PixelByte(led_strip_pixels, 3 * op.index + 2) = op.blue
       /\ \A pos \in 0..(PIXEL_BYTES - 1) :
             (pos < 3 * op.index \/ pos > 3 * op.index + 2)
             => PixelByte(led_strip_pixels, pos) = PixelByte(pre_pixels, pos)

\* the last LED has been set in a buffer that holds other colours
C8_Witness ==
    /\ op.name = "set"
    /\ op.index = MAX_LED_NUMBERS - 1
    /\ Entry(led_strip_pixels, op.index) # Entry(pre_pixels, op.index)
    /\ \E led \in LedIndex : led # op.index /\ Entry(pre_pixels, led) # << 0, 0, 0 >>

\* a step in which at_led_clear_all runs (on its own or from at_led_init)
ClearStep ==
    /\ pc \in { "idle", "boot" }
    /\ pc' = "flush"
    /\ op'.name \in { "clear", "init" }

\* C9: led_used_no after at_led_set_value(i, ...) with i < MAX_LED_NUMBERS is
\* max(previous, i + 1); it never decreases except in at_led_clear_all and
\* never exceeds MAX_LED_NUMBERS.
C9_UsedCount ==
    /\ [](/\ led_used_no <= MAX_LED_NUMBERS
          /\ (op.name = "set" /\ op.index < MAX_LED_NUMBERS)
             => led_used_no = Max(pre_used, op.index + 1))
    /\ [][led_used_no' >= led_used_no \/ ClearStep]_vars

\* a set has advanced led_used_no to its maximum
C9_Witness ==
    /\ op.name = "set"
    /\ op.index = MAX_LED_NUMBERS - 1
    /\ pre_used < MAX_LED_NUMBERS
    /\ led_used_no = MAX_LED_NUMBERS

\* the 8 symbols of a byte, most-significant bit first
ByteSymbols(byte) ==
    [j \in 1..8 |-> IF (byte % Pow2(8 - j + 1)) >= Pow2(8 - j)
                    THEN ws2812_one ELSE ws2812_zero]

\* the frame of LEDs i..n of leds, each (red, green, blue), then RESET
RECURSIVE FrameFrom(_, _)
FrameFrom(leds, i) ==
    IF i > Len(leds)
    THEN << ws2812_reset >>
    ELSE ByteSymbols(leds[i][2]) \o ByteSymbols(leds[i][1]) \o ByteSymbols(leds[i][3])
         \o FrameFrom(leds, i + 1)

\* C10: whatever free-slot counts are offered, the symbols emitted for a frame
\* of n LEDs are, for LED 0 up to n - 1, the green, red and blue byte, each as
\* 8 symbols most-significant bit first, then one RESET; bytes are emitted
\* whole, each once.
C10_WholeFrame ==
    pc = "harness"
    => LET frame == FrameFrom(enc_leds, 1)
       IN  /\ enc_ret \in { 0, 1, 8 }
           /\ Len(wire) <= Len(frame)
           /\ wire = SubSeq(frame, 1, Len(wire))
           /\ tx_queue # << >> =>
                 /\ Len(wire) = Head(tx_queue).written
                 /\ Len(wire) % 8 = 0
           /\ tx_queue = << >> =>
                 /\ wire = frame
                 /\ Len(wire) = 8 * 3 * Len(enc_leds) + 1

\* a frame of the largest size has been emitted to its end
C10_Witness ==
    /\ pc = "harness"
    /\ Len(enc_leds) = MaxEncLeds
    /\ tx_queue = << >>
    /\ Len(wire) = 8 * 3 * MaxEncLeds + 1

\* the byte the invocation recorded in enc_call is positioned on
CallByte == PixelByte(led_strip_pixels, enc_call.symbols_written \div 8)

CallInData ==
    /\ enc_call.called
    /\ enc_call.symbols_free >= 8
    /\ enc_call.symbols_written \div 8 < enc_call.data_size

\* C11: an invocation with symbols_written / 8 < data_size and at least 8 free
\* slots writes exactly 8 symbols, symbol j being ONE if bit 7 - j of the byte
\* at symbols_written / 8 is set and ZERO otherwise, returns 8 and does not set
\* done; the byte 0b10110000 yields ONE, ZERO, ONE, ONE, ZERO, ZERO, ZERO, ZERO.
C11_ByteInRange ==
    CallInData
    => /\ enc_call.ret = 8
       /\ Len(enc_call.symbols) = 8
       /\ \A j \in 0..7 :
             enc_call.symbols[j + 1] =
                 IF (CallByte % Pow2(7 - j + 1)) >= Pow2(7 - j)
                 THEN ws2812_one ELSE ws2812_zero
       /\ enc_call.done = enc_call.done_in
       /\ CallByte = 176 =>
             enc_call.symbols = << ws2812_one, ws2812_zero, ws2812_one, ws2812_one,
                                   ws2812_zero, ws2812_zero, ws2812_zero, ws2812_zero >>

\* the byte 0b10110000 has been encoded from a position inside a byte
C11_Witness ==
    /\ CallInData
    /\ CallByte = 176
    /\ enc_call.symbols_written % 8 # 0
    /\ enc_call.ret = 8
    /\ ~enc_call.done

\* C12: an invocation with at least 8 free slots and symbols_written / 8 >=
\* data_size (an empty buffer included) writes exactly one symbol, the RESET
\* symbol, sets done and returns 1.
C12_EndOfFrame ==
    (/\ enc_call.called
     /\ enc_call.symbols_free >= 8
     /\ enc_call.symbols_written \div 8 >= enc_call.data_size)
    => /\ enc_call.ret = 1
       /\ enc_call.symbols = << ws2812_reset >>
       /\ enc_call.done

\* the RESET has been written right at the end of a non-empty buffer with
\* done clear on entry
C12_Witness ==
    /\ enc_call.called
    /\ enc_call.data_size > 0
    /\ enc_call.symbols_written = 8 * enc_call.data_size
    /\ ~enc_call.done_in
    /\ enc_call.done
    /\ enc_call.ret = 1

\* C13: an invocation with fewer than 8 free slots, at any position (past the
\* end of the buffer included), returns 0, writes no symbol and leaves done
\* as it was.
C13_InsufficientSpace ==
    (enc_call.called /\ enc_call.symbols_free < 8)
    => /\ enc_call.ret = 0
       /\ enc_call.symbols = << >>
       /\ enc_call.done = enc_call.done_in

\* seven free slots have been offered past the end of the buffer
C13_Witness ==
    /\ enc_call.called
    /\ enc_call.symbols_free = 7
    /\ enc_call.symbols_written \div 8 >= enc_call.data_size
    /\ enc_call.ret = 0
    /\ enc_call.done_in

\* the tables and the bit fields of a colour code as the quantizer is specified
SpecLUT3 == [k \in 0..7 |-> CASE k = 0 -> 0 [] k = 1 -> 2 [] k = 2 -> 7 [] k = 3 -> 25
                              [] k = 4 -> 57 [] k = 5 -> 106 [] k = 6 -> 171 [] k = 7 -> 255]
SpecLUT2 == [k \in 0..3 |-> CASE k = 0 -> 0 [] k = 1 -> 2 [] k = 2 -> 57 [] k = 3 -> 255]
RedIndex(code) == (code \div 32) % 8
GreenIndex(code) == (code \div 4) % 8
BlueIndex(code) == code % 4

\* C14: for every code in 0..255 the colour +LED stores is (R, G, B) =
\* (LUT3[(code >> 5) & 7], LUT3[(code >> 2) & 7], LUT2[code & 3]); code 0x00
\* gives (0,0,0), 0xFF (255,255,255), 0x24 (2,2,0); a channel is 0 exactly
\* when its index is 0 and 255 exactly when its index is the maximum.
C14_Quantizer ==
    (LedReturned /\ Len(paras) <= MAX_LED_NUMBERS /\ AllInRange(paras))
    => \A i \in 1..Len(paras) :
          LET code  == paras[i].digit
              green == led_strip_pixels[i - 1][0]
              red   == led_strip_pixels[i - 1][1]
              blue  == led_strip_pixels[i - 1][2]
          IN  /\ red = SpecLUT3[RedIndex(code)]
              /\ green = SpecLUT3[GreenIndex(code)]
              /\ blue = SpecLUT2[BlueIndex(code)]
              /\ code = 0 => << red, green, blue >> = << 0, 0, 0 >>
              /\ code = 255 => << red, green, blue >> = << 255, 255, 255 >>
              /\ code = 36 => << red, green, blue >> = << 2, 2, 0 >>
              /\ (red = 0 <=> RedIndex(code) = 0) /\ (red = 255 <=> RedIndex(code) = 7)
              /\ (green = 0 <=> GreenIndex(code) = 0)
              /\ (green = 255 <=> GreenIndex(code) = 7)
              /\ (blue = 0 <=> BlueIndex(code) = 0) /\ (blue = 255 <=> BlueIndex(code) = 3)

\* a command has stored every code of 0..255
C14_Witness ==
    /\ LedReturned
    /\ result = "OK"
    /\ AllInRange(paras)
    /\ \A code \in 0..255 : \E i \in 1..Len(paras) : paras[i].digit = code

\* C15: from any reachable state at_led_clear_all leaves led_used_no =
\* DEFAULT_LED_NUMBERS and every byte of the pixel buffer zero, and the flush
\* it issues (also the first transmission after at_led_init) covers exactly
\* DEFAULT_LED_NUMBERS LEDs, DEFAULT_LED_NUMBERS * 3 zero bytes.
C15_ClearAll ==
    op.name \in { "clear", "init" }
    => /\ led_used_no = DEFAULT_LED_NUMBERS
       /\ \A pos \in 0..(PIXEL_BYTES - 1) : PixelByte(led_strip_pixels, pos) = 0
       /\ pc = "flush" => (count = DEFAULT_LED_NUMBERS /\ op_tx = << >>)
       /\ pc = "idle" =>
             /\ op_tx = << DEFAULT_LED_NUMBERS * 3 >>
             /\ tx_queue # << >> =>
                   tx_queue[Len(tx_queue)].size = DEFAULT_LED_NUMBERS * 3

\* a clear has run on a full buffer of colours and has issued its flush
C15_Witness ==
    /\ op.name = "clear"
    /\ pc = "idle"
    /\ pre_used = MAX_LED_NUMBERS
    /\ \E led \in LedIndex : led >= DEFAULT_LED_NUMBERS /\ pre_pixels[led] # ZeroPixels[led]
    /\ op_tx = << DEFAULT_LED_NUMBERS * 3 >>

Min(a, b) == IF a <= b THEN a ELSE b

\* C16: every transmission issued by at_led_flush_no(count) has a payload of
\* exactly 3 * min(count, led_used_no) bytes from the start of the pixel
\* buffer, led_used_no read at the time of the flush, so that entries with an
\* index >= led_used_no are never transmitted.
C16_FlushPayload ==
    \A i \in 1..Len(op_tx) :
        /\ op_tx[i] = 3 * Min(flush_arg, led_used_no)
        /\ op_tx[i] <= 3 * led_used_no

\* C17: at 10 MHz (1 tick = 0.1 us) the ZERO symbol is high for 3 ticks then
\* low for 9, the ONE symbol high for 9 ticks then low for 3, the RESET symbol
\* low in both halves for at least 500 ticks (50 us) in total; every bit
\* symbol lasts exactly 12 ticks.  Stated of the symbols put on the wire.
C17_SymbolTiming ==
    pc = "harness"
    => /\ RMT_LED_STRIP_RESOLUTION_HZ = 10 * 1000000
       /\ \A i \in 1..Len(wire) :
             LET sym == wire[i]
             IN  IF tx_queue = << >> /\ i = Len(wire)
                 THEN \* the RESET that ended the frame
                      /\ sym.level0 = 0 /\ sym.level1 = 0
                      /\ sym.duration0 + sym.duration1 >= 500
                      /\ sym = ws2812_reset
                 ELSE \* the symbol of bit 7 - (i - 1) % 8 of byte (i - 1) / 8
                      /\ sym.level0 = 1 /\ sym.level1 = 0
                      /\ sym.duration0 + sym.duration1 = 12
                      /\ IF BitSet(PixelByte(led_strip_pixels, (i - 1) \div 8), (i - 1) % 8)
                         THEN sym.duration0 = 9 /\ sym.duration1 = 3 /\ sym = ws2812_one
                         ELSE sym.duration0 = 3 /\ sym.duration1 = 9 /\ sym = ws2812_zero

\* a frame holding set and clear bits has been sent to its RESET
C17_Witness ==
    /\ pc = "harness"
    /\ tx_queue = << >>
    /\ \E i, j, k \in 1..Len(wire) :
          /\ wire[i] = ws2812_zero
          /\ wire[j] = ws2812_one
          /\ wire[k] = ws2812_reset
          /\ wire[k].duration0 + wire[k].duration1 = 500

\* C18: with the hardware invoking the encoder and offering 8 free slots in
\* the end, every transmission of n bytes signals done after exactly n
\* byte-producing invocations and one RESET invocation (8n + 1 symbols), so
\* the wait of every later flush returns and no sequence of +LED commands
\* blocks for ever.
C18_TransmissionsComplete ==
    /\ [](\A i \in 1..Len(tx_queue) :
            /\ tx_queue[i].written % 8 = 0
            /\ tx_queue[i].written <= 8 * tx_queue[i].size)
    /\ [][(tx_queue # << >> /\ Len(tx_queue') < Len(tx_queue))
           => Head(tx_queue).written = 8 * Head(tx_queue).size]_vars
    /\ (tx_queue # << >>) ~> (tx_queue = << >>)
    /\ (pc = "flush") ~> (pc = "idle")

\* a +LED command found a transmission pending, waited, issued its own and
\* that one has completed as well
C18_Witness ==
    /\ LedReturned
    /\ waited
    /\ op_tx # << >>
    /\ op_tx[1] > 0
    /\ tx_queue = << >>

\* C19: +BUZZ with first parameter f: f = 0 sets the duty to 0, leaves the
\* frequency and returns OK; 20 <= f <= 20000 sets the frequency to f, the
\* duty to 4096 and returns OK; a missing or unparsable parameter and any
\* other f return ERROR and change neither frequency nor duty.
C19_Buzz ==
    op.name = "buzz"
    => IF paras = << >> \/ paras[1].res # "OK"
       THEN result = "ERROR" /\ ledc_freq = pre_freq /\ ledc_duty = pre_duty
       ELSE LET f == paras[1].digit
            IN  IF f = 0
                THEN result = "OK" /\ ledc_duty = 0 /\ ledc_freq = pre_freq
                ELSE IF 20 <= f /\ f <= 20000
                THEN result = "OK" /\ ledc_freq = f /\ ledc_duty = 4096
                ELSE result = "ERROR" /\ ledc_freq = pre_freq /\ ledc_duty = pre_duty

\* a tone other than the configured one has been stopped with +BUZZ=0
C19_Witness ==
    /\ op.name = "buzz"
    /\ paras = << Digit(0) >>
    /\ pre_duty = LEDC_DUTY
    /\ pre_freq # LEDC_FREQUENCY
    /\ ledc_duty = 0
    /\ ledc_freq = pre_freq
    /\ result = "OK"

\* time of the non-empty USB chunk before chunk i, 0 for the first
PreviousChunkTime(i) == IF i = 1 THEN 0 ELSE usb_rx[i - 1].time

\* C20: every non-empty chunk read from USB is written to the UART exactly
\* once and in read order; the write carries a break if and only if the chunk
\* is the single byte 0x10 and more than 100000 us have passed since the
\* previous non-empty chunk (since time 0 for the first); the timestamp of
\* the last chunk is updated on every non-empty read, break or not.
C20_Bridge ==
    /\ Len(uart_tx) = Len(usb_rx)
    /\ \A i \in 1..Len(usb_rx) :
          /\ uart_tx[i].data = usb_rx[i].data
          /\ uart_tx[i].brk <=>
                (/\ usb_rx[i].data = << 16 >>
                 /\ usb_rx[i].time - PreviousChunkTime(i) > 100000)
    /\ last_tx_ms = IF usb_rx = << >> THEN 0 ELSE usb_rx[Len(usb_rx)].time

\* a DLE exactly 100000 us after the previous chunk went out without break,
\* a later DLE after a longer pause with break
C20_Witness ==
    \E i, j \in 1..Len(usb_rx) :
        /\ 1 < i /\ i < j
        /\ usb_rx[i].data = << DLE >>
        /\ usb_rx[i].time - usb_rx[i - 1].time = BREAK_PAUSE_US
        /\ ~uart_tx[i].brk
        /\ usb_rx[j].data = << DLE >>
        /\ uart_tx[j].brk

====
